---- MODULE Spec2Model ----
(***************************************************************************)
(* Model of test4.py (Smart Study Pro quiz): the response parser           *)
(* extract_questions, the retry wrapper generate_questions, and the        *)
(* session state st.session_state.quiz with its handlers generate_quiz,    *)
(* process_answer, generate_feedback and the "Retake Quiz" button.         *)
(*                                                                         *)
(* Text is a sequence of tokens.  A token is one character of the text,    *)
(* except that a maximal alphanumeric run (what the regex class \w+        *)
(* matches) and a whole marker **QuestionK** are one token each.           *)
(*                                                                         *)
(* The handlers are those the page offers once an API key is entered       *)
(* (line 293); the chat, the debug panel and the audio leave the modelled  *)
(* fields alone and are not modelled.                                      *)
(***************************************************************************)
EXTENDS Integers, Sequences, FiniteSets, TLC

\* ---------------------------------------------------------------- tokens
Space == {" ", "\n"}
\* every **Question<digits>** marker the inputs use (\*\*Question\d+\*\*)
MarkerSeq ==
    <<"**Question1**", "**Question2**", "**Question3**", "**Question4**",
      "**Question5**">>
Markers == {MarkerSeq[i] : i \in 1..Len(MarkerSeq)}
Punct == {"{", "}", "'", "\"", ":", ",", "?"}
Digits == {"3", "4", "5", "6"}
IsWord(t) == t \notin (Space \cup Markers \cup Punct)

RECURSIVE SkipSpace(_, _)
\* index of the first token at or after i that is not whitespace (\s*)
SkipSpace(s, i) ==
    IF i <= Len(s) /\ s[i] \in Space THEN SkipSpace(s, i + 1) ELSE i

RECURSIVE WordRunEnd(_, _)
\* last index of the maximal \w+ run that starts at i
WordRunEnd(s, i) ==
    IF i + 1 <= Len(s) /\ IsWord(s[i + 1]) THEN WordRunEnd(s, i + 1) ELSE i

SetMin(S) == CHOOSE x \in S : \A y \in S : x <= y

\* ------------------------------------------------ segmentation (line 104)
\* '}' at j can close the group: \s*(?=\*\*Question\d+\*\*|$) matches after it
BlockEndOK(s, j) ==
    /\ s[j] = "}"
    /\ LET k == SkipSpace(s, j + 1) IN k > Len(s) \/ s[k] \in Markers

\* the positions at which ({.*?}) may end for a group opening at b
BlockEnds(s, b) == {j \in (b + 1)..Len(s) : BlockEndOK(s, j)}

\* the regex matches with its marker at i
MatchAt(s, i) ==
    /\ s[i] \in Markers
    /\ LET b == SkipSpace(s, i + 1) IN
         /\ b <= Len(s)
         /\ s[b] = "{"
         /\ BlockEnds(s, b) # {}

MatchBrace(s, i) == SkipSpace(s, i + 1)
\* .*? is lazy: the first admissible closing brace
MatchClose(s, i) == SetMin(BlockEnds(s, MatchBrace(s, i)))
MatchGroup(s, i) == SubSeq(s, MatchBrace(s, i), MatchClose(s, i))
MatchNext(s, i) == SkipSpace(s, MatchClose(s, i) + 1)

RECURSIVE FindAllFrom(_, _)
\* re.findall: leftmost, non-overlapping matches, scanning resumes after a match
FindAllFrom(s, p) ==
    LET starts == {i \in p..Len(s) : MatchAt(s, i)} IN
    IF starts = {} THEN <<>>
    ELSE LET i == SetMin(starts)
         IN <<MatchGroup(s, i)>> \o FindAllFrom(s, MatchNext(s, i))

FindAll(s) == FindAllFrom(s, 1)

\* ------------------------------------------- normalisation (lines 110-111)
\* block.replace("'", '"')
ReplaceQuotes(s) == [i \in 1..Len(s) |-> IF s[i] = "'" THEN "\"" ELSE s[i]]

\* (\w+)(\s*:\s*) matches with its word run starting at i
KeyMatchAt(s, i) ==
    /\ IsWord(s[i])
    /\ (i = 1 \/ ~IsWord(s[i - 1]))
    /\ LET c == SkipSpace(s, WordRunEnd(s, i) + 1) IN c <= Len(s) /\ s[c] = ":"

RECURSIVE KeySubFrom(_, _)
\* re.sub(r'(\w+)(\s*:\s*)', r'"\1"\2', s): every match, left to right
KeySubFrom(s, p) ==
    LET starts == {i \in p..Len(s) : KeyMatchAt(s, i)} IN
    IF starts = {} THEN SubSeq(s, p, Len(s))
    ELSE LET i == SetMin(starts)
             r == WordRunEnd(s, i)
             e == SkipSpace(s, SkipSpace(s, r + 1) + 1)
         IN SubSeq(s, p, i - 1) \o <<"\"">> \o SubSeq(s, i, r) \o <<"\"">>
              \o SubSeq(s, r + 1, e - 1) \o KeySubFrom(s, e)

KeySub(s) == KeySubFrom(s, 1)

Normalize(block) == KeySub(ReplaceQuotes(block))

\* ------------------------------------------------- json.loads (line 112)
\* JSON values: t is "str", "num" or "obj"; s the text of a string or number;
\* kv the members of an object in insertion order
StrVal(s) == [t |-> "str", s |-> s, kv |-> <<>>]
NumVal(s) == [t |-> "num", s |-> s, kv |-> <<>>]
ObjVal(kv) == [t |-> "obj", s |-> <<>>, kv |-> kv]
Fail == [ok |-> FALSE, next |-> 0, val |-> StrVal(<<>>)]
Ok(n, v) == [ok |-> TRUE, next |-> n, val |-> v]

HasKey(o, k) == o.t = "obj" /\ \E i \in 1..Len(o.kv) : o.kv[i].k = k
Get(o, k) == o.kv[CHOOSE i \in 1..Len(o.kv) : o.kv[i].k = k].v
\* dict[k] = v: a repeated key keeps its place and takes the last value
DictSet(kv, k, v) ==
    IF \E i \in 1..Len(kv) : kv[i].k = k
    THEN [i \in 1..Len(kv) |-> IF kv[i].k = k THEN [k |-> k, v |-> v] ELSE kv[i]]
    ELSE Append(kv, [k |-> k, v |-> v])

\* a string opening at i: up to the next double quote, no raw control character
ParseString(s, i) ==
    IF i > Len(s) \/ s[i] # "\"" THEN Fail
    ELSE LET closes == {j \in (i + 1)..Len(s) : s[j] = "\""}
         IN IF closes = {} THEN Fail
            ELSE LET j == SetMin(closes)
                 IN IF \E m \in (i + 1)..(j - 1) : s[m] = "\n" THEN Fail
                    ELSE Ok(j + 1, StrVal(SubSeq(s, i + 1, j - 1)))

RECURSIVE DigitRunEnd(_, _)
DigitRunEnd(s, i) ==
    IF i + 1 <= Len(s) /\ s[i + 1] \in Digits THEN DigitRunEnd(s, i + 1) ELSE i

RECURSIVE ParseValue(_, _)
RECURSIVE ParseMembers(_, _, _)

\* scan_once: a value starting exactly at i
ParseValue(s, i) ==
    IF i > Len(s) THEN Fail
    ELSE IF s[i] = "\"" THEN ParseString(s, i)
    ELSE IF s[i] \in Digits
         THEN LET r == DigitRunEnd(s, i) IN Ok(r + 1, NumVal(SubSeq(s, i, r)))
    ELSE IF s[i] = "{"
         THEN LET n == SkipSpace(s, i + 1)
              IN IF n <= Len(s) /\ s[n] = "}" THEN Ok(n + 1, ObjVal(<<>>))
                 ELSE ParseMembers(s, n, <<>>)
    ELSE Fail

\* JSONObject: the members from a property name at i on, kv so far
ParseMembers(s, i, kv) ==
    LET key == ParseString(s, i) IN
    IF ~key.ok THEN Fail
    ELSE LET c == SkipSpace(s, key.next) IN
         IF c > Len(s) \/ s[c] # ":" THEN Fail
         ELSE LET v == ParseValue(s, SkipSpace(s, c + 1)) IN
              IF ~v.ok THEN Fail
              ELSE LET d == SkipSpace(s, v.next)
                       kv2 == DictSet(kv, key.val.s, v.val)
                   IN IF d > Len(s) THEN Fail
                      ELSE IF s[d] = "}" THEN Ok(d + 1, ObjVal(kv2))
                      ELSE IF s[d] = ","
                           THEN ParseMembers(s, SkipSpace(s, d + 1), kv2)
                      ELSE Fail

\* json.loads: one value, whitespace around it, nothing after it
JsonLoads(s) ==
    LET v == ParseValue(s, SkipSpace(s, 1)) IN
    IF v.ok /\ SkipSpace(s, v.next) > Len(s) THEN v ELSE Fail

\* ------------------------------------------ extract_questions (102-120)
\* one turn of the for loop: block decoded to d, rest the later turns' outcome
DecodeOne(block, d, rest) ==
    IF d.ok
    THEN [questions |-> <<d.val>> \o rest.questions, errors |-> rest.errors]
    ELSE [questions |-> rest.questions,
          errors |-> <<[error_type |-> "JSON Decode", block |-> block]>>
                       \o rest.errors]

RECURSIVE DecodeBlocks(_, _)
\* the for loop over question_blocks: [questions, errors] from block i on
DecodeBlocks(blocks, i) ==
    IF i > Len(blocks) THEN [questions |-> <<>>, errors |-> <<>>]
    ELSE DecodeOne(blocks[i], JsonLoads(Normalize(blocks[i])),
                   DecodeBlocks(blocks, i + 1))

extract_questions(response) == DecodeBlocks(FindAll(response), 1)

\* ------------------------------------------------------- response texts
\* a single-quoted string of the model's dialect
Quoted(s) == <<"'">> \o s \o <<"'">>
\* 'key': value
Pair(key, value) == Quoted(<<key>>) \o <<":", " ">> \o value

OptionKeys == <<"OptionA", "OptionB", "OptionC", "OptionD">>

\* the object of SYSTEM_INSTRUCTION's format on one line, without its closing brace
OpenBlock(qt, opts, ans) ==
    <<"{">> \o Pair("Question", Quoted(qt)) \o <<",", " ">>
      \o Pair("Options",
              <<"{">> \o Pair("OptionA", Quoted(opts[1])) \o <<",", " ">>
                    \o Pair("OptionB", Quoted(opts[2])) \o <<",", " ">>
                    \o Pair("OptionC", Quoted(opts[3])) \o <<",", " ">>
                    \o Pair("OptionD", Quoted(opts[4])) \o <<"}">>)
      \o <<",", " ">> \o Pair("Answer", Quoted(ans))

Block(qt, opts, ans) == OpenBlock(qt, opts, ans) \o <<"}">>

\* the same object laid out over several indented lines, as in the EXAMPLE
PrettyBlock(qt, opts, ans) ==
    <<"{", "\n", " ">> \o Pair("Question", Quoted(qt)) \o <<",", "\n", " ">>
      \o Pair("Options",
              <<"{", "\n", " ", " ">>
                    \o Pair("OptionA", Quoted(opts[1])) \o <<",", "\n", " ", " ">>
                    \o Pair("OptionB", Quoted(opts[2])) \o <<",", "\n", " ", " ">>
                    \o Pair("OptionC", Quoted(opts[3])) \o <<",", "\n", " ", " ">>
                    \o Pair("OptionD", Quoted(opts[4])) \o <<"\n", " ", "}">>)
      \o <<",", "\n", " ">> \o Pair("Answer", Quoted(ans)) \o <<"\n", "}">>

\* the record json.loads yields for a block of that format
Record(qt, opts, ans) ==
    ObjVal(<<[k |-> <<"Question">>, v |-> StrVal(qt)],
             [k |-> <<"Options">>,
              v |-> ObjVal([i \in 1..4 |-> [k |-> <<OptionKeys[i]>>, v |-> StrVal(opts[i])]])],
             [k |-> <<"Answer">>, v |-> StrVal(ans)]>>)

QWord == <<"one", "two", "three", "four", "five">>
PlainOpts == <<<<"3">>, <<"4">>, <<"5">>, <<"6">>>>

\* the question text of the k-th block of each kind
KindText(k, kind) ==
    CASE kind = "colon" -> <<"Solve", ":", " ", QWord[k], "?">>
      [] kind = "apos" -> <<"it", "'", "s", " ", QWord[k], "?">>
      [] OTHER -> <<"What", " ", "is", " ", QWord[k], "?">>

\* the raw text of the k-th block, from its opening brace to its last character
RawBlock(k, kind) ==
    CASE kind = "pretty" -> PrettyBlock(KindText(k, kind), PlainOpts, <<"4">>)
      [] kind = "nobrace" -> OpenBlock(KindText(k, kind), PlainOpts, <<"4">>)
      [] kind = "trail" ->
           Block(KindText(k, kind), PlainOpts, <<"4">>) \o <<" ", "Explanation">>
      [] OTHER -> Block(KindText(k, kind), PlainOpts, <<"4">>)

KindRecord(k, kind) == Record(KindText(k, kind), PlainOpts, <<"4">>)

RECURSIVE TextFrom(_, _)
\* the response made of the blocks kinds[k..], each under its marker
TextFrom(kinds, k) ==
    IF k > Len(kinds) THEN <<>>
    ELSE <<MarkerSeq[k], "\n">> \o RawBlock(k, kinds[k]) \o <<"\n">>
           \o TextFrom(kinds, k + 1)

TextOf(kinds) == TextFrom(kinds, 1)

\* ------------------------------------------------------------- bounds
MaxBlocks == 3
MaxClicks == 3
MaxErrors == 1
MaxAttemptCount == 1

\* stop_after_attempt(3)
MaxAttempts == 3

\* ---------------------------------------------------------------- state
VARIABLES
    questions,        \* quiz['questions']
    current_q,        \* quiz['current_q']
    score,            \* quiz['score']
    history,          \* quiz['history']
    feedback,         \* quiz['feedback']
    raw_response,     \* quiz['raw_response']
    parsing_errors,   \* quiz['parsing_errors']
    attempt_count,    \* quiz['attempt_count']
    last,             \* the handler that ran last, its inputs and what it did
    clicks,           \* "Submit Answer" clicks on the current quiz
    hits,             \* those of them with the correct option selected
    response,         \* extract_questions' argument
    kinds,            \* the kinds of the blocks response was built from
    pc,               \* "start" before extract_questions has run, then "done"
    question_blocks,  \* the local question_blocks of extract_questions
    result            \* what extract_questions returned

quizVars == <<questions, current_q, score, history, feedback>>
sessionVars ==
    <<questions, current_q, score, history, feedback, raw_response,
      attempt_count, last, clicks, hits>>
parseVars == <<response, kinds, pc, question_blocks, result>>
vars == <<sessionVars, parsing_errors, parseVars>>

\* Python's None against a value
Absent == [some |-> FALSE, v |-> StrVal(<<>>)]
Some(v) == [some |-> TRUE, v |-> v]

Snapshot ==
    [questions |-> questions, current_q |-> current_q, score |-> score,
     history |-> history, feedback |-> feedback]

NoOp ==
    [op |-> "none", svc |-> <<>>, calls |-> 0, ok |-> FALSE, sel |-> Absent,
     raised |-> FALSE, fb |-> FALSE, pre |-> Snapshot]

\* lines 11-25
SessionInit ==
    /\ questions = <<>>
    /\ current_q = 0
    /\ score = 0
    /\ history = <<>>
    /\ feedback = ""
    /\ raw_response = Absent
    /\ attempt_count = 0
    /\ clicks = 0
    /\ hits = 0
    /\ last = NoOp

ParseIdle ==
    /\ response = <<>>
    /\ kinds = <<>>
    /\ pc = "idle"
    /\ question_blocks = <<>>
    /\ result = <<>>

\* ------------------------------------------------ the parser on its own
Kinds == {"good", "pretty", "colon", "apos", "nobrace", "trail"}

ParseInit ==
    /\ SessionInit
    /\ parsing_errors = <<>>
    /\ kinds \in UNION {[1..n -> Kinds] : n \in 1..MaxBlocks}
    /\ response = TextOf(kinds)
    /\ pc = "start"
    /\ question_blocks = <<>>
    /\ result = <<>>

\* one call extract_questions(response), lines 102-120
ExtractQuestions ==
    /\ pc = "start"
    /\ \E r \in {extract_questions(response)} :
         /\ question_blocks' = FindAll(response)
         /\ result' = r.questions
         /\ parsing_errors' = parsing_errors \o r.errors
    /\ pc' = "done"
    /\ UNCHANGED <<sessionVars, response, kinds>>

ParseNext == ExtractQuestions

SpecParse == ParseInit /\ [][ParseNext]_vars

\* ------------------------------------------------- the external service
\* one answer of client.chat.completions.create: an exception or a text
Err == [ok |-> FALSE, text |-> <<>>]
Answer(text) == [ok |-> TRUE, text |-> text]

PaddedOpts == <<<<"3">>, <<" ", "4", " ">>, <<"5">>, <<"6">>>>

TextOne == TextOf(<<"good">>)
\* three questions; the second pads an option, the third pads the Answer
TextThree ==
    <<MarkerSeq[1], "\n">> \o Block(KindText(1, "good"), PlainOpts, <<"4">>)
      \o <<"\n", MarkerSeq[2], "\n">>
      \o Block(KindText(2, "good"), PaddedOpts, <<"4">>)
      \o <<"\n", MarkerSeq[3], "\n">>
      \o Block(KindText(3, "good"), PlainOpts, <<" ", "4">>)
TextBad == TextOf(<<"apos">>)
TextMixed == TextOf(<<"good", "apos">>)
TextEmpty == <<>>

SessionTexts == {TextOne, TextThree, TextBad, TextMixed, TextEmpty}

\* the service fails its first k calls and answers text from then on
Run(k, text) == [n \in 1..MaxAttempts |-> IF n <= k THEN Err ELSE Answer(text)]
ServiceRuns == {Run(k, text) : k \in 0..MaxAttempts, text \in SessionTexts}

\* the feedback call: an exception, an empty reply or a report
FeedbackAnswers ==
    {[ok |-> FALSE, text |-> ""], [ok |-> TRUE, text |-> ""],
     [ok |-> TRUE, text |-> "report"]}

\* ------------------------------------------ generate_questions (80-100)
\* lines 94-96: the reply is stored, then parsed into r and returned
BodyReturn(answer, st, r) ==
    [raised |-> FALSE,
     value |-> Some(r.questions),
     st |-> [raw_response |-> Some(StrVal(answer.text)),
             parsing_errors |-> st.parsing_errors \o r.errors,
             attempt_count |-> st.attempt_count,
             calls |-> st.calls + 1]]

\* the function body once, on the service's answer: the state it leaves
\* (st), what it returns (None or a list) and whether an exception leaves it
Body(answer, st) ==
    IF answer.ok
    THEN BodyReturn(answer, st, extract_questions(answer.text))
    ELSE \* except Exception: counted, reported, None returned
         [raised |-> FALSE,
          value |-> Absent,
          st |-> [raw_response |-> st.raw_response,
                  parsing_errors |-> st.parsing_errors,
                  attempt_count |-> st.attempt_count + 1,
                  calls |-> st.calls + 1]]

\* a retry condition that also retries a call that returned no questions
RetryOnEmpty(r) == r.raised \/ ~(r.value.some /\ r.value.v # <<>>)

\* tenacity's default retry condition: the call raised an exception
RetryNeeded(r) == r.raised

RECURSIVE Attempts(_, _, _)
RECURSIVE AfterAttempt(_, _, _)
\* @retry(stop=stop_after_attempt(3), wait=wait_fixed(1)): attempt n
Attempts(svc, n, st) == AfterAttempt(svc, n, Body(svc[n], st))

\* attempt n ended as r: another attempt, or r is the call's outcome
AfterAttempt(svc, n, r) ==
    IF RetryNeeded(r) /\ n < MaxAttempts THEN Attempts(svc, n + 1, r.st) ELSE r

generate_questions(svc) ==
    Attempts(svc, 1,
             [raw_response |-> raw_response, parsing_errors |-> parsing_errors,
              attempt_count |-> attempt_count, calls |-> 0])

\* ------------------------------------------------ generate_quiz (147-169)
\* "if questions:" a non-empty list
Truthy(value) == value.some /\ value.v # <<>>

\* the update of lines 159-166
QuizUpdate(qs) ==
    [questions |-> qs, current_q |-> 0, score |-> 0, history |-> <<>>,
     feedback |-> "", attempt_count |-> 0]

\* the "Start Quiz" button; the form is on the page only while the question
\* list is empty (lines 294-300)
GenerateQuiz ==
    /\ questions = <<>>
    /\ attempt_count < MaxAttemptCount
    /\ \E svc \in ServiceRuns : \E r \in {generate_questions(svc)} :
         LET good == ~r.raised /\ Truthy(r.value)
             u == QuizUpdate(r.value.v)
         IN /\ Len(r.st.parsing_errors) <= MaxErrors
            /\ raw_response' = r.st.raw_response
            /\ parsing_errors' = r.st.parsing_errors
            /\ IF good
               THEN /\ questions' = u.questions
                    /\ current_q' = u.current_q
                    /\ score' = u.score
                    /\ history' = u.history
                    /\ feedback' = u.feedback
                    /\ attempt_count' = u.attempt_count
               ELSE /\ attempt_count' = r.st.attempt_count
                    /\ UNCHANGED quizVars
            /\ last' = [NoOp EXCEPT !.op = "generate", !.svc = svc,
                                     !.calls = r.st.calls, !.ok = good,
                                     !.raised = r.raised, !.pre = Snapshot]
    /\ clicks' = 0
    /\ hits' = 0
    /\ UNCHANGED parseVars

\* ----------------------------------------------- show_question (171-189)
\* q['Question'] and q['Options'].values() are there to be shown
CanShow(q) ==
    /\ HasKey(q, <<"Question">>)
    /\ HasKey(q, <<"Options">>)
    /\ Get(q, <<"Options">>).t = "obj"

\* st.radio(..., index=None): nothing chosen, or one of the option values
Selections(q) ==
    LET opts == Get(q, <<"Options">>).kv
    IN {Absent} \cup {Some(opts[i].v) : i \in 1..Len(opts)}

\* ---------------------------------------------- process_answer (191-209)
RECURSIVE StripRight(_)
StripRight(s) ==
    IF s # <<>> /\ s[Len(s)] \in Space THEN StripRight(SubSeq(s, 1, Len(s) - 1))
    ELSE s

\* str.strip()
Strip(s) == StripRight(SubSeq(s, SkipSpace(s, 1), Len(s)))

\* line 193 raises: .strip() of None or of a value that is no string
AnswerRaises(q, user_answer) ==
    \/ ~user_answer.some
    \/ user_answer.v.t # "str"
    \/ ~HasKey(q, <<"Answer">>)
    \/ Get(q, <<"Answer">>).t # "str"

\* line 193
IsCorrect(q, user_answer) ==
    Strip(user_answer.v.s) = Strip(Get(q, <<"Answer">>).s)

\* lines 195-200
AnswerRecord(q, user_answer) ==
    [question |-> Get(q, <<"Question">>),
     user_answer |-> user_answer,
     correct_answer |-> Get(q, <<"Answer">>),
     is_correct |-> IsCorrect(q, user_answer)]

\* a score that counts every recorded answer
ScoreEveryAnswer(sc, is_correct) == sc + 1

\* lines 202-203
ScoreAfter(sc, is_correct) == IF is_correct THEN sc + 1 ELSE sc

\* a cursor test that is off by one
NotLastOffByOne(q_idx, n) == q_idx < n

\* line 205
NotLast(q_idx, n) == q_idx < n - 1

\* generate_feedback (211-237): the reply is stored, an exception only shown
FeedbackAfter(fb, reply) == IF reply.ok THEN reply.text ELSE fb

\* the user picked the option whose text, trimmed, is the trimmed Answer
Chosen(q, user_answer) ==
    /\ user_answer.some
    /\ user_answer.v.t = "str"
    /\ HasKey(q, <<"Answer">>)
    /\ Strip(user_answer.v.s) = Strip(Get(q, <<"Answer">>).s)

\* the "Submit Answer" button under the current question (lines 297-298,
\* 188-189) with process_answer and, at the last question, generate_feedback
SubmitAnswer ==
    /\ questions # <<>>
    /\ clicks < MaxClicks
    /\ LET q == questions[current_q + 1] IN
         /\ CanShow(q)
         /\ \E user_answer \in Selections(q), reply \in FeedbackAnswers :
              /\ clicks' = clicks + 1
              /\ hits' = IF Chosen(q, user_answer) THEN hits + 1 ELSE hits
              /\ IF AnswerRaises(q, user_answer)
                 THEN /\ last' = [NoOp EXCEPT !.op = "submit", !.sel = user_answer,
                                              !.raised = TRUE, !.pre = Snapshot]
                      /\ UNCHANGED quizVars
                 ELSE /\ history' = Append(history, AnswerRecord(q, user_answer))
                      /\ score' = ScoreAfter(score, IsCorrect(q, user_answer))
                      /\ questions' = questions
                      /\ IF NotLast(current_q, Len(questions))
                         THEN /\ current_q' = current_q + 1
                              /\ feedback' = feedback
                         ELSE /\ current_q' = current_q
                              /\ feedback' = FeedbackAfter(feedback, reply)
                      /\ last' = [NoOp EXCEPT !.op = "submit", !.sel = user_answer,
                                     !.fb = ~NotLast(current_q, Len(questions)),
                                     !.pre = Snapshot]
    /\ UNCHANGED <<raw_response, attempt_count, parsing_errors, parseVars>>

\* ------------------------------------------ "Retake Quiz" (302, 315-323)
\* a retake that forgets to clear the score
RetakeKeepsScore ==
    [questions |-> <<>>, current_q |-> 0, score |-> score, history |-> <<>>,
     feedback |-> ""]

RetakeUpdate ==
    [questions |-> <<>>, current_q |-> 0, score |-> 0, history |-> <<>>,
     feedback |-> ""]

RetakeQuiz ==
    /\ feedback # ""
    /\ questions' = RetakeUpdate.questions
    /\ current_q' = RetakeUpdate.current_q
    /\ score' = RetakeUpdate.score
    /\ history' = RetakeUpdate.history
    /\ feedback' = RetakeUpdate.feedback
    /\ clicks' = 0
    /\ hits' = 0
    /\ last' = [NoOp EXCEPT !.op = "retake", !.pre = Snapshot]
    /\ UNCHANGED <<raw_response, attempt_count, parsing_errors, parseVars>>

Init == SessionInit /\ parsing_errors = <<>> /\ ParseIdle

Next == GenerateQuiz \/ SubmitAnswer \/ RetakeQuiz

Spec == Init /\ [][Next]_vars

\* ==================================================== the retry wrapper
\* C1: one "Start Quiz" against a service that fails every call makes
\* MaxAttempts (3) service calls before the failure is reported to generate_quiz
C1_ThreeCallsBeforeFailure ==
    (last.op = "generate" /\ \A n \in 1..MaxAttempts : ~last.svc[n].ok)
        => (last.calls = MaxAttempts /\ ~last.ok)

\* C7: when the first call succeeds and the parser decodes no question, there
\* is no second call, the outcome is a generation failure, and questions,
\* current_q, score, history and feedback are as before
C7_NoRetryOnEmptyParse ==
    (/\ last.op = "generate"
     /\ last.svc[1].ok
     /\ extract_questions(last.svc[1].text).questions = <<>>)
        => (last.calls = 1 /\ ~last.ok /\ Snapshot = last.pre)

\* a reply made of one undecodable block was received and reported as a failure
C7_Witness ==
    /\ last.op = "generate"
    /\ last.svc[1].ok
    /\ last.svc[1].text = TextBad
    /\ extract_questions(last.svc[1].text).questions = <<>>
    /\ raw_response = Some(StrVal(TextBad))
    /\ parsing_errors # <<>>

\* ===================================================== quiz progression
\* C2: every click on "Submit Answer", with an option selected or with none,
\* appends exactly one AnswerRecord, adds 1 to score iff the trimmed selection
\* is the trimmed Answer, and advances current_q by 1 or, at the last index,
\* leaves it and triggers feedback generation
C2_EverySubmissionRecorded ==
    last.op = "submit" =>
        LET q == last.pre.questions[last.pre.current_q + 1]
            match == Chosen(q, last.sel)
            n == Len(last.pre.history)
        IN /\ Len(history) = n + 1
           /\ SubSeq(history, 1, n) = last.pre.history
           /\ history[n + 1].user_answer = last.sel
           /\ history[n + 1].is_correct = match
           /\ score = last.pre.score + (IF match THEN 1 ELSE 0)
           /\ IF last.pre.current_q < Len(last.pre.questions) - 1
              THEN current_q = last.pre.current_q + 1 /\ ~last.fb
              ELSE current_q = last.pre.current_q /\ last.fb

\* C5: when every question of an N-question quiz has been submitted once, k of
\* the submissions correct, then as feedback generation is triggered score = k
\* and history has N records
C5_ScoreAtFeedback ==
    (last.op = "submit" /\ last.fb /\ clicks = Len(questions))
        => (score = hits /\ Len(history) = Len(questions))

\* the spec's instance: three questions, two correct submissions
C5_Witness ==
    /\ last.op = "submit"
    /\ last.fb
    /\ clicks = Len(questions)
    /\ Len(questions) = 3
    /\ hits = 2
    /\ score = 2

\* C6: after a successful generate and after a retake the progress is
\* cleared (current_q = 0, score = 0, no history, no feedback); the question
\* list is the newly parsed one (generate) or empty (retake)
C6_ProgressCleared ==
    /\ (last.op = "generate" /\ last.ok) =>
           /\ current_q = 0 /\ score = 0 /\ history = <<>> /\ feedback = ""
           /\ questions = extract_questions(raw_response.v.s).questions
           /\ questions # <<>>
    /\ last.op = "retake" =>
           /\ current_q = 0 /\ score = 0 /\ history = <<>> /\ feedback = ""
           /\ questions = <<>>

\* a retake of a finished quiz that had a score, a history and a report
C6_Witness ==
    /\ last.op = "retake"
    /\ last.pre.score > 0
    /\ Len(last.pre.history) = Len(last.pre.questions)
    /\ last.pre.feedback = "report"

\* C9: history never has more records than the quiz has questions, nor is
\* score ever above the number of questions
C9_HistoryWithinQuiz ==
    Len(history) <= Len(questions) /\ score <= Len(questions)

\* C10: with a non-empty question list 0 <= current_q < len(questions), and a
\* submission leaves current_q or moves it forward by exactly one
C10_CursorInRange ==
    /\ questions # <<>> => (0 <= current_q /\ current_q < Len(questions))
    /\ last.op = "submit" =>
           (current_q = last.pre.current_q \/ current_q = last.pre.current_q + 1)

\* the cursor has walked to the last question of a three-question quiz
C10_Witness ==
    /\ last.op = "submit"
    /\ Len(questions) = 3
    /\ last.pre.current_q = 1
    /\ current_q = 2

\* =========================================================== the parser
WellFormedKinds == {"good", "pretty", "colon"}

\* C3: a text of N well-formed blocks yields exactly N records, in source
\* order, each with four options, and no diagnostic
C3_WellFormedAllDecoded ==
    (pc = "done" /\ \A k \in 1..Len(kinds) : kinds[k] \in WellFormedKinds)
        => /\ result = [k \in 1..Len(kinds) |-> KindRecord(k, kinds[k])]
           /\ \A k \in 1..Len(result) : Len(Get(result[k], <<"Options">>).kv) = 4
           /\ parsing_errors = <<>>

\* the blocks whose own raw text fails the structural decode
BadBlocks ==
    {k \in 1..Len(kinds) : ~JsonLoads(Normalize(RawBlock(k, kinds[k]))).ok}

\* C4: when exactly one of the N blocks fails structural decode, the other
\* N-1 records are returned in source order and there is exactly one
\* diagnostic, whose block is the raw text of the bad block
C4_BadBlockIsolated ==
    (pc = "done" /\ Cardinality(BadBlocks) = 1)
        => LET b == CHOOSE k \in BadBlocks : TRUE
           IN /\ result = [i \in 1..(Len(kinds) - 1) |->
                              IF i < b THEN KindRecord(i, kinds[i])
                              ELSE KindRecord(i + 1, kinds[i + 1])]
              /\ parsing_errors =
                     <<[error_type |-> "JSON Decode", block |-> RawBlock(b, kinds[b])]>>

\* C8: no extracted candidate block contains a marker: each ends before the
\* earliest marker that follows its own
C8_BlocksStopAtMarker ==
    pc = "done" =>
        \A b \in 1..Len(question_blocks) :
            \A j \in 1..Len(question_blocks[b]) :
                question_blocks[b][j] \notin Markers

====
